---- MODULE Spec2Model ----
(***************************************************************************)
(* Approval workflow engine of the expense management backend.             *)
(*                                                                         *)
(* The model follows the controllers (approvalController, expense          *)
(* controller).  The persistence layer stores the fields the handlers      *)
(* write (approval_level, company_id, status, comments, delegated_by); the *)
(* unique index of the Approval model on (expense_id, step_number) is the  *)
(* uniqueness of (expense_id, approval_level).  A handler is a sequence of *)
(* awaits inside a transaction that takes no row lock: its reads see the   *)
(* committed rows at the time of the read, its writes are made by primary  *)
(* key and become visible at commit.  Each handler is therefore two steps: *)
(* the find (read and guards) and the commit (writes and audit entry);     *)
(* steps of different requests interleave.                                 *)
(***************************************************************************)
EXTENDS Integers, Sequences, FiniteSets, Bags, TLC

(***************************************************************************)
(* Bounds                                                                  *)
(***************************************************************************)
MaxConc == 2          \* requests in flight at the same time
MaxAudit == 3         \* calls of logAuditEvent (successful operations) in a behaviour
MaxApprovals == 3     \* Approval rows
MaxBulk == 2          \* approval ids in one bulk request

(***************************************************************************)
(* User directory (static): id, company, role, active flag, manager.       *)
(***************************************************************************)
NoUser == 0
Null == <<>>      \* a comment that is null / undefined
Absent == -1      \* an absent (null) max_amount

Users ==
  << [company_id |-> 1, role |-> "employee", is_active |-> TRUE,  manager_id |-> 2],
     [company_id |-> 1, role |-> "admin",    is_active |-> TRUE,  manager_id |-> NoUser],
     [company_id |-> 1, role |-> "admin",    is_active |-> TRUE,  manager_id |-> NoUser],
     [company_id |-> 2, role |-> "admin",    is_active |-> TRUE,  manager_id |-> NoUser],
     [company_id |-> 1, role |-> "manager",  is_active |-> FALSE, manager_id |-> NoUser] >>

UserIds == DOMAIN Users

\* User.findByPk(id): the row, or null when there is none
FindUserByPk(id) == IF id \in UserIds THEN id ELSE NoUser

\* requests pass the authenticate middleware: the acting user is active
Actors == {u \in UserIds : Users[u].is_active}

\* the users that send bulk requests
BulkActors == {2}

\* the users that send update requests: an employee and an admin
UpdateActors == {1, 2}

\* users that own expenses of company 1
Submitters == {1, 2}

ExpenseIds == {1}
Amounts == {100, 150}

(***************************************************************************)
(* Company approval settings (company.approval_settings), read-only to the *)
(* engine.  present = FALSE is a company without approval_settings.  A     *)
(* max_amount or approver_id that is absent is Absent / NoUser.               *)
(***************************************************************************)
Level(n, type, role, approver) ==
  [level |-> n, approver_type |-> type, role |-> role, approver_id |-> approver]

Rule(min, max, approver) ==
  [min_amount |-> min, max_amount |-> max, approver_id |-> approver]

Settings(present, enabled, type, levels, rules) ==
  [present |-> present, enabled |-> enabled, workflow_type |-> type,
   approval_levels |-> levels, approval_rules |-> rules]

Configs ==
  { Settings(FALSE, FALSE, "none", <<>>, <<>>),
    Settings(TRUE, FALSE, "sequential",
             <<Level(1, "manager", "", NoUser), Level(2, "role", "admin", NoUser)>>, <<>>),
    Settings(TRUE, TRUE, "sequential", <<>>, <<>>),
    Settings(TRUE, TRUE, "sequential", <<Level(1, "manager", "", NoUser)>>, <<>>),
    Settings(TRUE, TRUE, "sequential",
             <<Level(1, "manager", "", NoUser), Level(2, "role", "admin", NoUser)>>, <<>>),
    Settings(TRUE, TRUE, "sequential",
             <<Level(1, "role", "admin", NoUser), Level(2, "user", "", 3)>>, <<>>),
    Settings(TRUE, TRUE, "conditional", <<>>, <<>>),
    Settings(TRUE, TRUE, "conditional", <<>>,
             <<Rule(0, 100, 2), Rule(101, Absent, 3)>>),
    Settings(TRUE, TRUE, "conditional", <<>>,
             <<Rule(0, 0, 3), Rule(0, Absent, 2)>>) }

(***************************************************************************)
(* Approver resolution                                                     *)
(***************************************************************************)
\* Array.prototype.find: the first of the matching indexes, 0 if none
FindFirst(matching) ==
  IF matching = {} THEN 0
  ELSE CHOOSE i \in matching : \A j \in matching : i <= j

\* the rule predicate of the conditional workflow; !rule.max_amount is true
\* for an absent max_amount and for max_amount = 0
RuleApplies(rule, amount) ==
  /\ amount >= rule.min_amount
  /\ \/ rule.max_amount = Absent
     \/ rule.max_amount = 0
     \/ amount <= rule.max_amount

\* employee && employee.manager_id ? User.findByPk(employee.manager_id) : none
ManagerOf(userId) ==
  IF FindUserByPk(userId) # NoUser /\ Users[userId].manager_id # NoUser
    THEN FindUserByPk(Users[userId].manager_id)
    ELSE NoUser

\* the role query without the company_id condition
RoleApprovers_AnyCompany(companyId, role) ==
  LET match == {u \in UserIds : Users[u].role = role /\ Users[u].is_active}
  IN IF match = {} THEN {NoUser} ELSE match

\* User.findAll({company_id, role, is_active: true}): the query has no ORDER BY,
\* so approvers[0] is any of the matching rows (none: undefined)
RoleApprovers(companyId, role) ==
  LET match == {u \in UserIds : /\ Users[u].company_id = companyId
                                /\ Users[u].role = role
                                /\ Users[u].is_active}
  IN IF match = {} THEN {NoUser} ELSE match

\* the approver of one configured level: the set of users the code can return
LevelApprovers(lvl, expense) ==
  IF lvl.approver_type = "manager" THEN {ManagerOf(expense.user_id)}
  ELSE IF lvl.approver_type = "role" THEN RoleApprovers(expense.company_id, lvl.role)
  ELSE IF lvl.approver_id # NoUser THEN {FindUserByPk(lvl.approver_id)}
  ELSE {NoUser}

\* the approver of the first applicable rule
RuleApprovers(rules, expense) ==
  LET i == FindFirst({k \in DOMAIN rules : RuleApplies(rules[k], expense.amount_in_company_currency)})
  IN IF i # 0 /\ rules[i].approver_id # NoUser
       THEN {FindUserByPk(rules[i].approver_id)}
       ELSE {NoUser}

\* getNextApprover(expense, currentLevel): the users it can return (NoUser: null)
getNextApprover(settings, expense, currentLevel) ==
  IF ~settings.present THEN {NoUser}
  ELSE IF settings.workflow_type = "sequential" THEN
    LET levels == settings.approval_levels
        i == FindFirst({k \in DOMAIN levels : levels[k].level = currentLevel + 1})
    IN IF i = 0 THEN {NoUser} ELSE LevelApprovers(levels[i], expense)
  ELSE IF settings.workflow_type = "conditional" THEN
    RuleApprovers(settings.approval_rules, expense)
  ELSE {NoUser}

\* the sequential branch of getFirstApprover when the company declares no
\* level 1 falls through to the default manager approval
SequentialFirst_FallsToDefault(levels, expense) ==
  LET default == {ManagerOf(expense.user_id)}
      i == FindFirst({k \in DOMAIN levels : levels[k].level = 1})
  IN IF i = 0 THEN default
     ELSE IF levels[i].approver_type = "manager" THEN default
     ELSE IF levels[i].approver_type = "role" THEN
       RoleApprovers(expense.company_id, levels[i].role)
     ELSE IF levels[i].approver_id # NoUser THEN {FindUserByPk(levels[i].approver_id)}
     ELSE default

\* the sequential branch of getFirstApprover: no level 1 returns null; a
\* manager level without a manager, or a level without approver, falls
\* through to the default (the submitter's manager)
SequentialFirst(levels, expense) ==
  LET default == {ManagerOf(expense.user_id)}
      i == FindFirst({k \in DOMAIN levels : levels[k].level = 1})
  IN IF i = 0 THEN {NoUser}
     ELSE IF levels[i].approver_type = "manager" THEN default
     ELSE IF levels[i].approver_type = "role" THEN
       RoleApprovers(expense.company_id, levels[i].role)
     ELSE IF levels[i].approver_id # NoUser THEN {FindUserByPk(levels[i].approver_id)}
     ELSE default

\* the conditional branch of getFirstApprover: the approver of the first
\* applicable rule, else the default
ConditionalFirst(rules, expense) ==
  LET default == {ManagerOf(expense.user_id)}
      i == FindFirst({k \in DOMAIN rules : RuleApplies(rules[k], expense.amount_in_company_currency)})
  IN IF i # 0 /\ rules[i].approver_id # NoUser
       THEN {FindUserByPk(rules[i].approver_id)}
       ELSE default

\* getFirstApprover(expense, company): the users it can return (NoUser: null)
getFirstApprover(settings, expense) ==
  IF ~settings.present \/ ~settings.enabled THEN {NoUser}
  ELSE IF settings.workflow_type = "sequential" THEN
    SequentialFirst(settings.approval_levels, expense)
  ELSE IF settings.workflow_type = "conditional" THEN
    ConditionalFirst(settings.approval_rules, expense)
  ELSE {ManagerOf(expense.user_id)}

(***************************************************************************)
(* Request inputs                                                          *)
(***************************************************************************)
\* a comment text is <<leading blanks, length of the trimmed text, trailing
\* blanks>>; Null is a missing comment
Comment(lead, core, trail) == <<lead, core, trail>>
CommentValues == {Null, Comment(1, 0, 1), Comment(1, 9, 1), Comment(0, 10, 0)}
ApproveComments == {Comment(1, 0, 1), Comment(0, 10, 0)}
BulkComments == {Comment(0, 10, 0)}

\* String.prototype.trim().length and String.prototype.length
TrimLen(c) == c[2]
RawLen(c) == c[1] + c[2] + c[3]

\* body('comments').optional().trim(): the sanitizer of validateApproval
\* replaces a present comment by its trimmed text
SanitizeComment(c) == IF c = Null THEN Null ELSE Comment(0, TrimLen(c), 0)

\* JavaScript truthiness of a comment: null, undefined and "" are falsy
Truthy(c) == c # Null /\ RawLen(c) > 0

\* comments || null
OrNull(c) == IF Truthy(c) THEN c ELSE Null

(***************************************************************************)
(* State                                                                   *)
(***************************************************************************)
VARIABLES
  settings,    \* approval_settings of company 1
  expenses,    \* Expense rows by id
  approvals,   \* Approval rows by id, in creation order
  audit,       \* the calls of logAuditEvent, in order, stored or not
  reqs,        \* the requests in flight: what each handler has read so far
  resp         \* the response of the last finished request

vars == <<settings, expenses, approvals, audit, reqs, resp>>

\* a request in flight: its inputs; for bulk approve, the ids still to
\* process, the rows its transaction has written and the result lists; for
\* update expense, the request body and the expense instance it has read
Request(op, actor, id, comments, delegate) ==
  [op |-> op, actor |-> actor, id |-> id, comments |-> comments,
   delegate_to |-> delegate, ids |-> <<>>, written |-> {}, expWritten |-> {},
   approved |-> <<>>, failed |-> <<>>, body |-> <<>>, seen |-> <<>>]

\* res.status(...).json(...): 200 "ok", 404 "not_found", 400 "bad_status" /
\* "validation", 500 "error"
Response(op, result) == [op |-> op, result |-> result]

\* the response of a request that ends; observe = FALSE leaves the responses
\* out of the state
Respond(observe, op, result) ==
  IF observe THEN resp' = Response(op, result) ELSE UNCHANGED resp

\* the requests in flight
InFlight == BagToSet(reqs)

\* a handler has passed its find / has ended
Started(r) == reqs (+) SetToBag({r})
Ended(r) == reqs (-) SetToBag({r})

\* the model stops taking requests that could exceed its bounds
\* audit entries a request in flight can still write
AuditLeft(r) == IF r.op = "bulk_approve" THEN Len(r.ids) ELSE 1

RECURSIVE AuditLeftOf(_)
AuditLeftOf(S) ==
  IF S = {} THEN 0
  ELSE LET r == CHOOSE x \in S : TRUE
       IN CopiesIn(r, reqs) * AuditLeft(r) + AuditLeftOf(S \ {r})

AuditPending == AuditLeftOf(InFlight)

CanStartN(n) ==
  /\ BagCardinality(reqs) < MaxConc
  /\ Len(audit) + AuditPending + n <= MaxAudit

CanStart == CanStartN(1)

\* every request in flight may insert one Approval row
CanCreate ==
  Len(approvals) + BagCardinality(reqs) < MaxApprovals

ApprovalIds == 1..MaxApprovals

\* the ids a request names: the ids of the Approval rows and one unknown id
KnownIds == 1..(Len(approvals) + 1)

NewExpense(user, amount) ==
  [status |-> "draft", user_id |-> user, company_id |-> Users[user].company_id,
   amount_in_company_currency |-> amount, approved_at |-> FALSE]

Init ==
  /\ settings \in Configs
  /\ expenses \in [ExpenseIds -> {NewExpense(u, m) : u \in Submitters, m \in Amounts}]
  /\ approvals = <<>>
  /\ audit = <<>>
  /\ reqs = EmptyBag
  /\ resp = Response("none", "none")

(***************************************************************************)
(* Persistence                                                             *)
(***************************************************************************)
\* the validator of AuditLog.action: isIn these values
AuditActions == {"create", "update", "delete", "approve", "reject", "submit", "escalate"}

\* logAuditEvent(entityType, entityId, action, userId, ...): AuditLog.create
\* stores the row when it passes the validation of the model; otherwise the
\* error is caught and logged, and nothing is stored
AuditEntry(entity, id, action, user) ==
  [entity_type |-> entity, entity_id |-> id, action |-> action,
   persisted |-> action \in AuditActions]

\* the rows of the audit_logs table
AuditLog == SelectSeq(audit, LAMBDA entry : entry.persisted)

\* the unique index is missing
UniqueViolation_Never(rows, expenseId, level) == FALSE

\* the unique index on (expense_id, step_number) rejects the insert
UniqueViolation(rows, expenseId, level) ==
  \E i \in DOMAIN rows : rows[i].expense_id = expenseId /\ rows[i].approval_level = level

\* Approval.create with the level counted from the wrong base
NewApproval_LevelOff(expenseId, approver, level, companyId) ==
  [expense_id |-> expenseId, approver_id |-> approver, approval_level |-> level + 1,
   company_id |-> companyId, status |-> "pending", comments |-> Null,
   delegated_by |-> NoUser]

\* Approval.create without status: 'pending', on a column that defaults otherwise
NewApproval_NotPending(expenseId, approver, level, companyId) ==
  [expense_id |-> expenseId, approver_id |-> approver, approval_level |-> level,
   company_id |-> companyId, status |-> "approved", comments |-> Null,
   delegated_by |-> NoUser]

\* Approval.create({expense_id, approver_id, approval_level, company_id, status: 'pending'})
NewApproval(expenseId, approver, level, companyId) ==
  [expense_id |-> expenseId, approver_id |-> approver, approval_level |-> level,
   company_id |-> companyId, status |-> "pending", comments |-> Null,
   delegated_by |-> NoUser]

\* the find when the user who delegated the Approval still matches
FindPendingApproval_DelegatorToo(id, actor) ==
  /\ id \in DOMAIN approvals
  /\ approvals[id].approver_id = actor \/ approvals[id].delegated_by = actor
  /\ approvals[id].company_id = Users[actor].company_id
  /\ approvals[id].status = "pending"

\* Approval.findOne({where: {id, approver_id, company_id, status: 'pending'}})
FindPendingApproval(id, actor) ==
  /\ id \in DOMAIN approvals
  /\ approvals[id].approver_id = actor
  /\ approvals[id].company_id = Users[actor].company_id
  /\ approvals[id].status = "pending"

(***************************************************************************)
(* submitExpense                                                           *)
(***************************************************************************)
\* Expense.findOne({where: {id, user_id, company_id}})
FindOwnExpense(id, actor) ==
  /\ id \in DOMAIN expenses
  /\ expenses[id].user_id = actor
  /\ expenses[id].company_id = Users[actor].company_id

\* the find and the guards of submitExpense
SubmitFind(observe, actor, id) ==
  /\ CanStart /\ CanCreate
  /\ UNCHANGED <<settings, expenses, approvals, audit>>
  /\ IF ~FindOwnExpense(id, actor)
       THEN Respond(observe, "submit", "not_found") /\ UNCHANGED reqs
     ELSE IF expenses[id].status # "draft"
       THEN Respond(observe, "submit", "bad_status") /\ UNCHANGED reqs
     ELSE /\ reqs' = Started(Request("submit", actor, id, Null, NoUser))
          /\ UNCHANGED resp

\* getFirstApprover, the writes, the audit entry and the commit of submitExpense
SubmitCommit(observe, r) ==
  /\ r \in InFlight /\ r.op = "submit"
  /\ LET e == expenses[r.id]
     IN \E first \in getFirstApprover(settings, e) :
          IF first = NoUser
            THEN /\ expenses' = [expenses EXCEPT ![r.id].status = "approved",
                                                 ![r.id].approved_at = TRUE]
                 /\ audit' = Append(audit, AuditEntry("expense", r.id, "submit", r.actor))
                 /\ Respond(observe, "submit", "ok")
                 /\ UNCHANGED approvals
          ELSE IF UniqueViolation(approvals, r.id, 1)
            THEN /\ Respond(observe, "submit", "error")
                 /\ UNCHANGED <<expenses, approvals, audit>>
          ELSE /\ approvals' = Append(approvals, NewApproval(r.id, first, 1, e.company_id))
               /\ expenses' = [expenses EXCEPT ![r.id].status = "submitted"]
               /\ audit' = Append(audit, AuditEntry("expense", r.id, "submit", r.actor))
               /\ Respond(observe, "submit", "ok")
  /\ reqs' = Ended(r)
  /\ UNCHANGED settings

(***************************************************************************)
(* approveExpense                                                          *)
(***************************************************************************)
\* the find and the guards of approveExpense
ApproveFind(observe, actor, id, comments) ==
  /\ CanStart /\ CanCreate
  /\ UNCHANGED <<settings, expenses, approvals, audit>>
  /\ IF ~FindPendingApproval(id, actor)
       THEN Respond(observe, "approve", "not_found") /\ UNCHANGED reqs
     ELSE IF expenses[approvals[id].expense_id].status # "submitted"
       THEN Respond(observe, "approve", "bad_status") /\ UNCHANGED reqs
     ELSE /\ reqs' = Started(Request("approve", actor, id, SanitizeComment(comments), NoUser))
          /\ UNCHANGED resp

\* approval.update({status: 'approved', comments: comments || null})
MarkApproved(rows, id, comments) ==
  [rows EXCEPT ![id].status = "approved", ![id].comments = OrNull(comments)]

\* the writes, getNextApprover, the audit entry and the commit of approveExpense.
\* expense.update({status: 'submitted'}) writes nothing: the instance read by
\* the find already has that status.
ApproveCommit(observe, r) ==
  /\ r \in InFlight /\ r.op = "approve"
  /\ LET a == approvals[r.id]
         e == expenses[a.expense_id]
     IN \E next \in getNextApprover(settings, e, a.approval_level) :
          IF next = NoUser
            THEN /\ approvals' = MarkApproved(approvals, r.id, r.comments)
                 /\ expenses' = [expenses EXCEPT ![a.expense_id].status = "approved",
                                                 ![a.expense_id].approved_at = TRUE]
                 /\ audit' = Append(audit, AuditEntry("approval", r.id, "approve", r.actor))
                 /\ Respond(observe, "approve", "ok")
          ELSE IF UniqueViolation(approvals, a.expense_id, a.approval_level + 1)
            THEN /\ Respond(observe, "approve", "error")
                 /\ UNCHANGED <<expenses, approvals, audit>>
          ELSE /\ approvals' = Append(MarkApproved(approvals, r.id, r.comments),
                                      NewApproval(a.expense_id, next, a.approval_level + 1,
                                                  e.company_id))
               /\ audit' = Append(audit, AuditEntry("approval", r.id, "approve", r.actor))
               /\ Respond(observe, "approve", "ok")
               /\ UNCHANGED expenses
  /\ reqs' = Ended(r)
  /\ UNCHANGED settings

(***************************************************************************)
(* rejectExpense                                                           *)
(***************************************************************************)
\* the comment check with the minimum length off by one
RejectCommentInvalid_OffByOne(c) == ~Truthy(c) \/ TrimLen(c) <= 10

\* !comments || comments.trim().length < 10
RejectCommentInvalid(c) == ~Truthy(c) \/ TrimLen(c) < 10

\* the comment check, the find and the guards of rejectExpense
RejectFind(observe, actor, id, comments) ==
  /\ CanStart
  /\ UNCHANGED <<settings, expenses, approvals, audit>>
  /\ IF RejectCommentInvalid(SanitizeComment(comments))
       THEN Respond(observe, "reject", "validation") /\ UNCHANGED reqs
     ELSE IF ~FindPendingApproval(id, actor)
       THEN Respond(observe, "reject", "not_found") /\ UNCHANGED reqs
     ELSE IF expenses[approvals[id].expense_id].status # "submitted"
       THEN Respond(observe, "reject", "bad_status") /\ UNCHANGED reqs
     ELSE /\ reqs' = Started(Request("reject", actor, id, SanitizeComment(comments), NoUser))
          /\ UNCHANGED resp

\* CancelSiblings when the update of the other pending Approvals is left out
CancelSiblings_Skipped(rows, expenseId, id) == rows

\* Approval.update({status: 'cancelled'}, {where: {expense_id, status: 'pending',
\* id: {[Op.ne]: approval.id}}})
CancelSiblings(rows, expenseId, id) ==
  [i \in DOMAIN rows |->
     IF rows[i].expense_id = expenseId /\ rows[i].status = "pending" /\ i # id
       THEN [rows[i] EXCEPT !.status = "cancelled"]
       ELSE rows[i]]

\* approval.update({status: 'rejected', comments})
MarkRejected(rows, id, comments) ==
  [rows EXCEPT ![id].status = "rejected", ![id].comments = comments]

\* the writes, the audit entry and the commit of rejectExpense
RejectCommit(observe, r) ==
  /\ r \in InFlight /\ r.op = "reject"
  /\ LET a == approvals[r.id]
     IN /\ approvals' = CancelSiblings(MarkRejected(approvals, r.id, r.comments),
                                       a.expense_id, r.id)
        /\ expenses' = [expenses EXCEPT ![a.expense_id].status = "rejected"]
        /\ audit' = Append(audit, AuditEntry("approval", r.id, "reject", r.actor))
        /\ Respond(observe, "reject", "ok")
  /\ reqs' = Ended(r)
  /\ UNCHANGED settings

(***************************************************************************)
(* delegateApproval                                                        *)
(***************************************************************************)
\* User.findOne({where: {id: delegate_to, company_id: req.user.company_id, is_active: true}})
FindDelegate(delegate, actor) ==
  /\ delegate \in UserIds
  /\ Users[delegate].company_id = Users[actor].company_id
  /\ Users[delegate].is_active

\* the delegate check and the find of delegateApproval
DelegateFind(observe, actor, id, delegate) ==
  /\ CanStart
  /\ UNCHANGED <<settings, expenses, approvals, audit>>
  /\ IF ~FindDelegate(delegate, actor)
       THEN Respond(observe, "delegate", "validation") /\ UNCHANGED reqs
     ELSE IF ~FindPendingApproval(id, actor)
       THEN Respond(observe, "delegate", "not_found") /\ UNCHANGED reqs
     ELSE /\ reqs' = Started(Request("delegate", actor, id, Null, delegate))
          /\ UNCHANGED resp

\* the delegation also marks the Approval with a status of its own
MarkDelegated_StatusDelegated(rows, id, delegate, actor) ==
  [rows EXCEPT ![id].approver_id = delegate, ![id].delegated_by = actor,
               ![id].status = "delegated"]

\* approval.update({approver_id: delegate_to, delegated_by: req.user.userId, ...})
MarkDelegated(rows, id, delegate, actor) ==
  [rows EXCEPT ![id].approver_id = delegate, ![id].delegated_by = actor]

\* the write, the audit entry and the commit of delegateApproval
DelegateCommit(observe, r) ==
  /\ r \in InFlight /\ r.op = "delegate"
  /\ approvals' = MarkDelegated(approvals, r.id, r.delegate_to, r.actor)
        /\ audit' = Append(audit, AuditEntry("approval", r.id, "delegate", r.actor))
        /\ Respond(observe, "delegate", "ok")
  /\ reqs' = Ended(r)
  /\ UNCHANGED <<settings, expenses>>

(***************************************************************************)
(* bulkApproveExpenses                                                     *)
(***************************************************************************)
\* the approval_ids check of bulkApproveExpenses; the loop follows
BulkStart(observe, actor, ids, comments) ==
  /\ BagCardinality(reqs) < MaxConc
  /\ UNCHANGED <<settings, expenses, approvals, audit>>
  /\ IF Len(ids) = 0
       THEN Respond(observe, "bulk_approve", "validation") /\ UNCHANGED reqs
       ELSE /\ CanStartN(Len(ids))
            /\ reqs' = Started([Request("bulk_approve", actor, 0, comments, NoUser)
                                  EXCEPT !.ids = ids])
            /\ UNCHANGED resp

\* the status of an Approval / Expense row as the transaction of r reads it:
\* its own writes, else the committed row
SeenApprovalStatus(r, id) ==
  IF id \in r.written THEN "approved" ELSE approvals[id].status

SeenExpenseStatus(r, id) ==
  IF id \in r.expWritten THEN "approved" ELSE expenses[id].status

\* Approval.findOne(...) of the loop and the check of approval.expense.status
BulkItemFound(r, id) ==
  /\ id \in DOMAIN approvals
  /\ approvals[id].approver_id = r.actor
  /\ approvals[id].company_id = Users[r.actor].company_id
  /\ SeenApprovalStatus(r, id) = "pending"
  /\ SeenExpenseStatus(r, approvals[id].expense_id) = "submitted"

\* one iteration of the loop of bulkApproveExpenses.  An await that fails
\* after approval.update (getNextApprover, expense.update) is caught by the
\* catch of the iteration: the id is reported as failed and the update of the
\* Approval stays in the transaction.  A failing findOne has the effects of
\* an Approval that is not found.
BulkItem(r) ==
  /\ r \in InFlight /\ r.op = "bulk_approve" /\ Len(r.ids) > 0
  /\ LET id == Head(r.ids)
     IN IF ~BulkItemFound(r, id)
          THEN /\ reqs' = Ended(r) (+) SetToBag({[r EXCEPT !.ids = Tail(r.ids),
                                                           !.failed = Append(r.failed, id)]})
               /\ UNCHANGED audit
          ELSE LET a == approvals[id]
                   e == expenses[a.expense_id]
               IN \/ \E next \in getNextApprover(settings, e, a.approval_level) :
                       /\ reqs' = Ended(r) (+) SetToBag({[r EXCEPT
                                     !.ids = Tail(r.ids),
                                     !.written = r.written \cup {id},
                                     !.expWritten = IF next = NoUser
                                                      THEN r.expWritten \cup {a.expense_id}
                                                      ELSE r.expWritten,
                                     !.approved = Append(r.approved, id)]})
                       /\ audit' = Append(audit, AuditEntry("approval", id, "bulk_approve", r.actor))
                  \/ /\ reqs' = Ended(r) (+) SetToBag({[r EXCEPT
                                     !.ids = Tail(r.ids),
                                     !.written = r.written \cup {id},
                                     !.failed = Append(r.failed, id)]})
                     /\ UNCHANGED audit
  /\ UNCHANGED <<settings, expenses, approvals, resp>>

\* the transaction of a bulk request is abandoned when one of its items failed
BulkApprovalWrites_LostOnFailure(rows, r) ==
  IF r.failed # <<>> THEN rows
  ELSE [i \in DOMAIN rows |->
          IF i \in r.written
            THEN [rows[i] EXCEPT !.status = "approved", !.comments = OrNull(r.comments)]
            ELSE rows[i]]

\* the Approval rows after the commit of the transaction of bulk request r
BulkApprovalWrites(rows, r) ==
  [i \in DOMAIN rows |->
     IF i \in r.written
       THEN [rows[i] EXCEPT !.status = "approved", !.comments = OrNull(r.comments)]
       ELSE rows[i]]

\* the result lists of the response, by their emptiness
BulkResult(r) ==
  IF r.failed = <<>> THEN "ok"
  ELSE IF r.approved = <<>> THEN "all_failed"
  ELSE "partial"

\* transaction.commit() of bulkApproveExpenses: the buffered writes
BulkCommit(observe, r) ==
  /\ r \in InFlight /\ r.op = "bulk_approve" /\ Len(r.ids) = 0
  /\ approvals' = BulkApprovalWrites(approvals, r)
  /\ expenses' = [i \in DOMAIN expenses |->
                    IF i \in r.expWritten
                      THEN [expenses[i] EXCEPT !.status = "approved", !.approved_at = TRUE]
                      ELSE expenses[i]]
  /\ Respond(observe, "bulk_approve", BulkResult(r))
  /\ reqs' = Ended(r)
  /\ UNCHANGED <<settings, audit>>

\* the approval_ids arrays of the bulk requests
BulkLists == UNION {[1..n -> KnownIds] : n \in 0..MaxBulk}

(***************************************************************************)
(* updateExpense                                                           *)
(***************************************************************************)
\* a field that the request body does not carry (undefined, falsy)
NoStatus == ""
NoAmount == 0

\* req.body of updateExpense: the fields of the expense the engine reads
Updates(status, amount) == [status |-> status, amount |-> amount]

UpdateBodies ==
  { Updates("draft", 150), Updates("paid", NoAmount) }

\* Expense.findOne({where: {id, company_id}}), with user_id for an employee
FindUpdatableExpense(id, actor) ==
  /\ id \in DOMAIN expenses
  /\ expenses[id].company_id = Users[actor].company_id
  /\ Users[actor].role = "employee" => expenses[id].user_id = actor

\* the find and the status check of updateExpense
UpdateFind(observe, actor, id, body) ==
  /\ CanStart
  /\ UNCHANGED <<settings, expenses, approvals, audit>>
  /\ IF ~FindUpdatableExpense(id, actor)
       THEN Respond(observe, "update", "not_found") /\ UNCHANGED reqs
     ELSE IF expenses[id].status \in {"approved", "rejected", "paid"}
       THEN Respond(observe, "update", "bad_status") /\ UNCHANGED reqs
     ELSE /\ reqs' = Started([Request("update", actor, id, Null, NoUser)
                               EXCEPT !.body = body, !.seen = expenses[id]])
          /\ UNCHANGED resp

\* expense.update(updates): every field of the body that differs from the
\* instance read by the find is written, status included; a body with an
\* amount (in the company currency) sets amount_in_company_currency to it
ApplyUpdates(row, body, seen) ==
  [row EXCEPT
     !.status = IF body.status # NoStatus /\ body.status # seen.status
                  THEN body.status ELSE @,
     !.amount_in_company_currency =
                IF body.amount # NoAmount /\ body.amount # seen.amount_in_company_currency
                  THEN body.amount ELSE @]

\* the write and the audit entry of updateExpense
UpdateCommit(observe, r) ==
  /\ r \in InFlight /\ r.op = "update"
  /\ expenses' = [expenses EXCEPT ![r.id] = ApplyUpdates(@, r.body, r.seen)]
  /\ audit' = Append(audit, AuditEntry("expense", r.id, "update", r.actor))
  /\ Respond(observe, "update", "ok")
  /\ reqs' = Ended(r)
  /\ UNCHANGED <<settings, approvals>>

(***************************************************************************)
(* Specification                                                           *)
(***************************************************************************)
\* requests interleave; responses are not part of the state
Next ==
  \/ \E actor \in Actors, id \in ExpenseIds : SubmitFind(FALSE, actor, id)
  \/ \E r \in InFlight : SubmitCommit(FALSE, r)
  \/ \E actor \in Actors, id \in KnownIds, c \in ApproveComments : ApproveFind(FALSE, actor, id, c)
  \/ \E r \in InFlight : ApproveCommit(FALSE, r)
  \/ \E actor \in Actors, id \in KnownIds, c \in CommentValues : RejectFind(FALSE, actor, id, c)
  \/ \E r \in InFlight : RejectCommit(FALSE, r)
  \/ \E actor \in Actors, id \in KnownIds, d \in UserIds : DelegateFind(FALSE, actor, id, d)
  \/ \E r \in InFlight : DelegateCommit(FALSE, r)
  \/ \E actor \in BulkActors, ids \in BulkLists, c \in BulkComments : BulkStart(FALSE, actor, ids, c)
  \/ \E r \in InFlight : BulkItem(r)
  \/ \E r \in InFlight : BulkCommit(FALSE, r)
  \/ \E actor \in UpdateActors, id \in ExpenseIds, b \in UpdateBodies : UpdateFind(FALSE, actor, id, b)
  \/ \E r \in InFlight : UpdateCommit(FALSE, r)

Spec == Init /\ [][Next]_vars

\* one request at a time, each running to completion; the response of each
\* request is observed
NoneInFlight == reqs = EmptyBag

NextSeq ==
  \/ \E actor \in Actors, id \in ExpenseIds : NoneInFlight /\ SubmitFind(TRUE, actor, id)
  \/ \E r \in InFlight : SubmitCommit(TRUE, r)
  \/ \E actor \in Actors, id \in KnownIds, c \in ApproveComments :
        NoneInFlight /\ ApproveFind(TRUE, actor, id, c)
  \/ \E r \in InFlight : ApproveCommit(TRUE, r)
  \/ \E actor \in Actors, id \in KnownIds, c \in CommentValues :
        NoneInFlight /\ RejectFind(TRUE, actor, id, c)
  \/ \E r \in InFlight : RejectCommit(TRUE, r)
  \/ \E actor \in Actors, id \in KnownIds, d \in UserIds :
        NoneInFlight /\ DelegateFind(TRUE, actor, id, d)
  \/ \E r \in InFlight : DelegateCommit(TRUE, r)
  \/ \E actor \in BulkActors, ids \in BulkLists, c \in BulkComments :
        NoneInFlight /\ BulkStart(TRUE, actor, ids, c)
  \/ \E r \in InFlight : BulkItem(r)
  \/ \E r \in InFlight : BulkCommit(TRUE, r)
  \/ \E actor \in UpdateActors, id \in ExpenseIds, b \in UpdateBodies :
        NoneInFlight /\ UpdateFind(TRUE, actor, id, b)
  \/ \E r \in InFlight : UpdateCommit(TRUE, r)

SpecSeq == Init /\ [][NextSeq]_vars

(***************************************************************************)
(* Steps of a behaviour, as the claims speak of them                       *)
(***************************************************************************)
\* the handler of request r ends in this step (commit or rollback)
Ends(r) == r \in BagToSet(reqs) /\ reqs' = reqs (-) SetToBag({r})

\* the handler of request r commits in this step: it has called logAuditEvent
Commits(r, op) == Ends(r) /\ r.op = op /\ Len(audit') = Len(audit) + 1

\* the find of a handler of op runs in this step: it answers with an error or
\* its request is in flight afterwards
FindStepOf(op) ==
  \/ reqs' = reqs /\ resp'.op = op
  \/ reqs' # reqs /\ \E r \in BagToSet(reqs') : r.op = op

\* the elements of a list
Range(seq) == {seq[i] : i \in DOMAIN seq}

\* the logAuditEvent calls of the decisions (approve, reject, bulk approve) on
\* Approval id
Decisions(id) ==
  {i \in DOMAIN audit : /\ audit[i].entity_type = "approval"
                        /\ audit[i].entity_id = id
                        /\ audit[i].action \in {"approve", "reject", "bulk_approve"}}

\* the Approval rows of an expense
ApprovalsOf(rows, expenseId) == {i \in DOMAIN rows : rows[i].expense_id = expenseId}

(***************************************************************************)
(* C1: concurrent decisions on one pending Approval: exactly one succeeds, *)
(* so no Approval ever has two committed decisions.                        *)
(***************************************************************************)
C1_AtMostOneDecision ==
  \A id \in DOMAIN approvals : Cardinality(Decisions(id)) <= 1

(***************************************************************************)
(* C2: when a reject commits, its Approval is rejected, the expense is     *)
(* rejected, every other Approval of the expense that was pending is       *)
(* cancelled, none stays pending, and the other Approvals that were        *)
(* approved stay approved.                                                 *)
(***************************************************************************)
C2_RejectCascades ==
  [][\A r \in BagToSet(reqs) :
       Commits(r, "reject") =>
         LET eid == approvals[r.id].expense_id
         IN /\ approvals'[r.id].status = "rejected"
            /\ expenses'[eid].status = "rejected"
            /\ DOMAIN approvals' = DOMAIN approvals
            /\ \A i \in ApprovalsOf(approvals, eid) \ {r.id} :
                 /\ approvals[i].status = "pending" => approvals'[i].status = "cancelled"
                 /\ approvals[i].status = "approved" => approvals'[i].status = "approved"
            /\ \A i \in ApprovalsOf(approvals', eid) : approvals'[i].status # "pending"]_vars

\* a reject has committed and cancelled a pending sibling
C2_Witness ==
  \E i, j \in DOMAIN approvals :
    /\ i # j
    /\ approvals[i].expense_id = approvals[j].expense_id
    /\ approvals[i].status = "rejected"
    /\ approvals[j].status = "cancelled"
    /\ expenses[approvals[i].expense_id].status = "rejected"


(***************************************************************************)
(* C3: an approve commits only on an Approval that exists, is assigned to  *)
(* the acting user, is pending, and whose expense is submitted.            *)
(***************************************************************************)
C3_ApproveOnlyWhenGuardsHold ==
  [][\A r \in BagToSet(reqs) :
       Commits(r, "approve") =>
         /\ FindPendingApproval(r.id, r.actor)
         /\ expenses[approvals[r.id].expense_id].status = "submitted"]_vars

(***************************************************************************)
(* C4: when the approve of the Approval at level L commits, the Approval   *)
(* is approved; if resolution at L returns an approver, exactly one new    *)
(* Approval exists, pending, at level L+1, for that approver, and the      *)
(* expense is submitted; if it returns none, the expense is approved and   *)
(* no Approval is created.                                                 *)
(***************************************************************************)
C4_ApproveAdvances ==
  [][\A r \in BagToSet(reqs) :
       Commits(r, "approve") =>
         LET a == approvals[r.id]
             eid == a.expense_id
             next == getNextApprover(settings, expenses[eid], a.approval_level)
             created == DOMAIN approvals' \ DOMAIN approvals
         IN /\ approvals'[r.id].status = "approved"
            /\ IF next # {NoUser}
                 THEN /\ Cardinality(created) = 1
                      /\ \A n \in created :
                           /\ approvals'[n].expense_id = eid
                           /\ approvals'[n].approval_level = a.approval_level + 1
                           /\ approvals'[n].status = "pending"
                           /\ approvals'[n].approver_id \in next
                      /\ expenses'[eid].status = "submitted"
                 ELSE /\ created = {}
                      /\ expenses'[eid].status = "approved"]_vars

C6_SubmitOnlyDraft ==
  [][\A r \in BagToSet(reqs) :
       Commits(r, "submit") =>
         /\ FindOwnExpense(r.id, r.actor)
         /\ expenses[r.id].status = "draft"]_vars

(***************************************************************************)
(* C7: a submit under a configuration that is disabled, or sequential      *)
(* without levels, or conditional without rules, approves the expense and  *)
(* creates no Approval, whoever the submitter is.                          *)
(***************************************************************************)
Disabled(s) == ~s.present \/ ~s.enabled

SequentialEmpty(s) ==
  s.present /\ s.enabled /\ s.workflow_type = "sequential" /\ s.approval_levels = <<>>

ConditionalEmpty(s) ==
  s.present /\ s.enabled /\ s.workflow_type = "conditional" /\ s.approval_rules = <<>>

\* the submit of r approves the expense without creating an Approval
AutoApproved(r) ==
  /\ expenses'[r.id].status = "approved"
  /\ approvals' = approvals

C8_OnePendingPerLevel ==
  \A i, j \in DOMAIN approvals :
    (/\ approvals[i].expense_id = approvals[j].expense_id
     /\ approvals[i].approval_level = approvals[j].approval_level
     /\ approvals[i].status = "pending"
     /\ approvals[j].status = "pending") => i = j

\* two approves of the level-1 Approval were in flight together and the level-2
\* Approval exists, pending
C8_Witness ==
  /\ \E i \in DOMAIN approvals : approvals[i].approval_level = 2 /\ approvals[i].status = "pending"
  /\ \E r \in BagToSet(reqs) : r.op = "approve" /\ approvals[r.id].approval_level = 1

(***************************************************************************)
(* C9: the levels of the Approvals of one expense are pairwise distinct    *)
(* and are exactly 1..k, k the number of Approvals of the expense.         *)
(***************************************************************************)
C9_LevelsDense ==
  \A e \in DOMAIN expenses :
    LET mine == ApprovalsOf(approvals, e)
    IN /\ \A i, j \in mine : approvals[i].approval_level = approvals[j].approval_level => i = j
       /\ {approvals[i].approval_level : i \in mine} = 1..Cardinality(mine)

\* an expense with Approvals at several levels
C9_Witness ==
  \E e \in DOMAIN expenses : Cardinality(ApprovalsOf(approvals, e)) >= 3

(***************************************************************************)
(* C10: an Approval that is approved, rejected or cancelled keeps its      *)
(* status, approver, level and comments in every later step.               *)
(***************************************************************************)
C10_DecidedIsImmutable ==
  [][\A i \in DOMAIN approvals :
       approvals[i].status \in {"approved", "rejected", "cancelled"} =>
         /\ approvals'[i].status = approvals[i].status
         /\ approvals'[i].approver_id = approvals[i].approver_id
         /\ approvals'[i].approval_level = approvals[i].approval_level
         /\ approvals'[i].comments = approvals[i].comments]_vars

(***************************************************************************)
(* C11: the status of every expense is one of draft, submitted, approved,  *)
(* rejected, paid, and every step that changes it makes one of the forward *)
(* transitions draft->submitted, draft->approved, submitted->approved,     *)
(* submitted->rejected, approved->paid.                                    *)
(***************************************************************************)
ExpenseStatuses == {"draft", "submitted", "approved", "rejected", "paid"}

ForwardTransitions ==
  { <<"draft", "submitted">>, <<"draft", "approved">>, <<"submitted", "approved">>,
    <<"submitted", "rejected">>, <<"approved", "paid">> }

C11_ForwardTransitionsOnly ==
  /\ [](\A e \in DOMAIN expenses : expenses[e].status \in ExpenseStatuses)
  /\ [][\A e \in DOMAIN expenses :
          expenses'[e].status # expenses[e].status =>
            <<expenses[e].status, expenses'[e].status>> \in ForwardTransitions]_vars

(***************************************************************************)
(* C12: the amount_in_company_currency of an expense that is submitted,    *)
(* approved, rejected or paid is the same after every step.                *)
(***************************************************************************)
C12_AmountFrozen ==
  [][\A e \in DOMAIN expenses :
       expenses[e].status \in {"submitted", "approved", "rejected", "paid"} =>
         expenses'[e].amount_in_company_currency = expenses[e].amount_in_company_currency]_vars

(***************************************************************************)
(* C13: a reject whose comments are missing or shorter than 10 characters  *)
(* once trimmed is answered with a validation error and leaves the         *)
(* Approvals, the expenses and the audit log as they were; a reject whose  *)
(* trimmed comments have 10 characters or more passes the comment check.   *)
(***************************************************************************)
C13_RejectNeedsComment ==
  [][FindStepOf("reject") =>
       \A actor \in Actors, id \in KnownIds, c \in CommentValues :
         RejectFind(TRUE, actor, id, c) =>
           IF c = Null \/ TrimLen(c) < 10
             THEN /\ resp' = Response("reject", "validation")
                  /\ UNCHANGED <<approvals, expenses, audit, reqs>>
             ELSE \/ reqs' # reqs
                  \/ resp' \in {Response("reject", "not_found"),
                                Response("reject", "bad_status")}]_vars

\* a reject with insufficient comments has been refused while an Approval of
\* the acting manager was pending
C13_Witness ==
  /\ resp = Response("reject", "validation")
  /\ \E i \in DOMAIN approvals : approvals[i].status = "pending"
  /\ reqs = EmptyBag

(***************************************************************************)
(* C14: a bulk approve handles the ids of its list one by one; each id it  *)
(* handles goes to exactly one of the lists approved and failed, whatever  *)
(* happened to the ids before it; the request ends only when no id is      *)
(* left, and when it ends every id of its approved list is an approved     *)
(* Approval, also when other ids of the list failed.                       *)
(***************************************************************************)
C14_BulkIsolatesFailures ==
  [][\A r \in BagToSet(reqs) :
       r.op = "bulk_approve" =>
         \/ CopiesIn(r, reqs') >= CopiesIn(r, reqs)
         \/ \E r2 \in BagToSet(reqs') :
              /\ Len(r.ids) > 0
              /\ r2.ids = Tail(r.ids)
              /\ \/ r2.approved = Append(r.approved, Head(r.ids)) /\ r2.failed = r.failed
                 \/ r2.failed = Append(r.failed, Head(r.ids)) /\ r2.approved = r.approved
              /\ Range(r2.approved) \subseteq r2.written
              /\ r.written \subseteq r2.written
         \/ /\ Ends(r)
            /\ r.ids = <<>>
            /\ \A i \in Range(r.approved) : approvals'[i].status = "approved"]_vars

\* a bulk approve has answered with an id approved and an id failed, and the
\* approved Approval is committed
C14_Witness ==
  /\ resp = Response("bulk_approve", "partial")
  /\ reqs = EmptyBag
  /\ \E i \in DOMAIN approvals :
       /\ approvals[i].status = "approved"
       /\ \E k \in DOMAIN audit : audit[k].action = "bulk_approve" /\ audit[k].entity_id = i

(***************************************************************************)
(* C15: when a bulk approve of a list of one id ends with that id          *)
(* approved, the state is the one the single approve of the id produces:   *)
(* the Approval is approved and, if resolution at its level returns an     *)
(* approver, a pending Approval of that approver exists at the next level  *)
(* and the expense is submitted; otherwise the expense is approved.        *)
(***************************************************************************)
C15_BulkOfOneLikeApprove ==
  [][\A r \in BagToSet(reqs) :
       (/\ Ends(r) /\ r.op = "bulk_approve"
        /\ Len(r.approved) = 1 /\ r.failed = <<>>) =>
         LET id == r.approved[1]
             a == approvals[id]
             next == getNextApprover(settings, expenses[a.expense_id], a.approval_level)
         IN /\ approvals'[id].status = "approved"
            /\ IF next # {NoUser}
                 THEN /\ \E n \in ApprovalsOf(approvals', a.expense_id) :
                           /\ approvals'[n].approval_level = a.approval_level + 1
                           /\ approvals'[n].status = "pending"
                           /\ approvals'[n].approver_id \in next
                      /\ expenses'[a.expense_id].status = "submitted"
                 ELSE expenses'[a.expense_id].status = "approved"]_vars

(***************************************************************************)
(* C16: when the delegate of a pending Approval commits, the Approval has  *)
(* the delegate as approver and the acting user as delegator, it is still  *)
(* pending, at the same level, of the same expense, with the same          *)
(* comments; no Approval is added or removed, and every other Approval and *)
(* every expense is unchanged.                                             *)
(***************************************************************************)
C16_DelegateFrame ==
  [][\A r \in BagToSet(reqs) :
       (Commits(r, "delegate") /\ approvals[r.id].status = "pending") =>
         /\ approvals'[r.id].approver_id = r.delegate_to
         /\ approvals'[r.id].delegated_by = r.actor
         /\ approvals'[r.id].status = "pending"
         /\ approvals'[r.id].approval_level = approvals[r.id].approval_level
         /\ approvals'[r.id].expense_id = approvals[r.id].expense_id
         /\ approvals'[r.id].comments = approvals[r.id].comments
         /\ DOMAIN approvals' = DOMAIN approvals
         /\ \A i \in DOMAIN approvals \ {r.id} : approvals'[i] = approvals[i]
         /\ expenses' = expenses]_vars

\* a pending Approval has been delegated to another user
C16_Witness ==
  \E i \in DOMAIN approvals :
    /\ approvals[i].status = "pending"
    /\ approvals[i].delegated_by # NoUser
    /\ approvals[i].approver_id # approvals[i].delegated_by
    /\ \E k \in DOMAIN audit : audit[k].action = "delegate" /\ audit[k].entity_id = i

(***************************************************************************)
(* C17: a delegate commits only on an Approval that is pending and for a   *)
(* delegate who exists, is active and belongs to the company of the        *)
(* expense.                                                                *)
(***************************************************************************)
C17_DelegateOnlyWhenGuardsHold ==
  [][\A r \in BagToSet(reqs) :
       Commits(r, "delegate") =>
         /\ approvals[r.id].status = "pending"
         /\ r.delegate_to \in UserIds
         /\ Users[r.delegate_to].is_active
         /\ Users[r.delegate_to].company_id =
              expenses[approvals[r.id].expense_id].company_id]_vars

(***************************************************************************)
(* C18: resolution is a function of the expense, the configuration, the    *)
(* level and the user directory: the first resolution and the resolution   *)
(* after an approve at any level each have exactly one possible result.    *)
(***************************************************************************)
C18_ResolutionIsAFunction ==
  \A e \in DOMAIN expenses :
    /\ Cardinality(getFirstApprover(settings, expenses[e])) = 1
    /\ \A lvl \in 1..MaxApprovals :
         Cardinality(getNextApprover(settings, expenses[e], lvl)) = 1

(***************************************************************************)
(* C19: under a company without approval settings, or with approval        *)
(* disabled, the first resolution and the resolution after an approve at   *)
(* any level return no approver.                                           *)
(***************************************************************************)
C19_DisabledResolvesNone ==
  \A e \in DOMAIN expenses :
    Disabled(settings) =>
      /\ getFirstApprover(settings, expenses[e]) = {NoUser}
      /\ \A lvl \in 1..MaxApprovals :
           getNextApprover(settings, expenses[e], lvl) = {NoUser}

(***************************************************************************)
(* C20: every submit, approve, reject and delegate that commits adds one   *)
(* row with its action to the audit log in the step of its commit, and a   *)
(* row is added to the audit log only in a step in which a request         *)
(* commits.                                                                *)
(***************************************************************************)
C20_AuditWithEveryCommit ==
  [][/\ \A r \in BagToSet(reqs) :
          (/\ Ends(r) /\ r.op \in {"submit", "approve", "reject", "delegate"}
           /\ <<approvals, expenses>>' # <<approvals, expenses>>) =>
            /\ Len(AuditLog') = Len(AuditLog) + 1
            /\ AuditLog'[Len(AuditLog')].action = r.op
     /\ Len(AuditLog') # Len(AuditLog) =>
          \E r \in BagToSet(reqs) : Ends(r)]_vars

(***************************************************************************)
(* C21: under an enabled sequential workflow, resolution at level L        *)
(* returns none when no level numbered L+1 is configured; otherwise it     *)
(* returns, for a manager level, the manager of the submitter, for a role  *)
(* level, an active user of the company of the expense who holds the role, *)
(* and for a specific-user level, the stored user; or none when there is   *)
(* no such user.                                                           *)
(***************************************************************************)
SequentialMode(s) == s.present /\ s.enabled /\ s.workflow_type = "sequential"

C21_SequentialNextLevel ==
  \A e \in DOMAIN expenses, lvl \in 0..MaxApprovals :
    SequentialMode(settings) =>
      LET levels == settings.approval_levels
          numbered == {k \in DOMAIN levels : levels[k].level = lvl + 1}
          result == getNextApprover(settings, expenses[e], lvl)
          submitter == expenses[e].user_id
      IN IF numbered = {} THEN result = {NoUser}
         ELSE \A k \in numbered :
                (\A j \in numbered : k <= j) =>
                  \A u \in result :
                    \/ /\ levels[k].approver_type = "manager"
                       /\ u = Users[submitter].manager_id
                    \/ /\ levels[k].approver_type = "role"
                       /\ \/ /\ u \in UserIds
                             /\ Users[u].role = levels[k].role
                             /\ Users[u].is_active
                             /\ Users[u].company_id = expenses[e].company_id
                          \/ /\ u = NoUser
                             /\ ~\E v \in UserIds : /\ Users[v].role = levels[k].role
                                                    /\ Users[v].is_active
                                                    /\ Users[v].company_id = expenses[e].company_id
                    \/ /\ levels[k].approver_type = "user"
                       /\ u = levels[k].approver_id

\* an approve at level 1 of a sequential workflow has resolved the approver of
\* level 2
C21_Witness ==
  /\ SequentialMode(settings)
  /\ \E i \in DOMAIN approvals :
       /\ approvals[i].approval_level = 2
       /\ approvals[i].status = "pending"
       /\ approvals[i].approver_id \in getNextApprover(settings, expenses[approvals[i].expense_id], 1)

(***************************************************************************)
(* C22: under a conditional workflow, resolution returns the approver of   *)
(* the first rule in list order whose range contains the amount of the     *)
(* expense in company currency, both bounds inclusive and an absent        *)
(* max_amount unbounded above; a rule with a present max_amount, 0         *)
(* included, does not match a larger amount.                               *)
(***************************************************************************)
ConditionalMode(s) == s.present /\ s.enabled /\ s.workflow_type = "conditional"

C22_ConditionalFirstMatch ==
  \A e \in DOMAIN expenses, lvl \in 0..MaxApprovals :
    ConditionalMode(settings) =>
      LET rules == settings.approval_rules
          amount == expenses[e].amount_in_company_currency
          inRange == {k \in DOMAIN rules :
                        /\ amount >= rules[k].min_amount
                        /\ \/ rules[k].max_amount = Absent
                           \/ amount <= rules[k].max_amount}
      IN \A k \in inRange :
           ((\A j \in inRange : k <= j) /\ rules[k].approver_id # NoUser) =>
             /\ getNextApprover(settings, expenses[e], lvl) = {FindUserByPk(rules[k].approver_id)}
             /\ getFirstApprover(settings, expenses[e]) = {FindUserByPk(rules[k].approver_id)}

(***************************************************************************)
(* C23: the approver chosen at submit is the result of resolution at level *)
(* 0: for every expense and configuration, getFirstApprover and            *)
(* getNextApprover at level 0 return the same user or both none.           *)
(***************************************************************************)
C23_FirstIsNextAtLevelZero ==
  \A e \in DOMAIN expenses :
    getFirstApprover(settings, expenses[e]) = getNextApprover(settings, expenses[e], 0)

(***************************************************************************)
(* C24: approving the pending Approval of a submitted expense each time    *)
(* one exists marks the expense approved after finitely many approves:     *)
(* from the level L of a pending Approval on, there is a level at which    *)
(* resolution returns none.  A sequential workflow with n level records    *)
(* has such a level among L..L+n; a conditional workflow does not read the *)
(* level, so the same window decides it.                                   *)
(***************************************************************************)
C24_ApproveChainEnds ==
  \A i \in DOMAIN approvals :
    approvals[i].status = "pending" =>
      \E lvl \in approvals[i].approval_level ..
                   (approvals[i].approval_level + Len(settings.approval_levels)) :
        getNextApprover(settings, expenses[approvals[i].expense_id], lvl) = {NoUser}

(***************************************************************************)
(* C25: when no request is in flight, every expense in status submitted    *)
(* has exactly one pending Approval.                                       *)
(***************************************************************************)
PendingOf(expenseId) ==
  {i \in DOMAIN approvals : /\ approvals[i].expense_id = expenseId
                            /\ approvals[i].status = "pending"}

C25_SubmittedHasOnePending ==
  NoneInFlight =>
    \A e \in DOMAIN expenses :
      expenses[e].status = "submitted" => Cardinality(PendingOf(e)) = 1

(***************************************************************************)
(* C26: every pending Approval refers to an expense that exists and has    *)
(* status submitted.                                                       *)
(***************************************************************************)
C26_PendingRefersToSubmitted ==
  \A i \in DOMAIN approvals :
    approvals[i].status = "pending" =>
      /\ approvals[i].expense_id \in DOMAIN expenses
      /\ expenses[approvals[i].expense_id].status = "submitted"

(***************************************************************************)
(* C27: under an enabled sequential workflow, an expense has status        *)
(* approved only if an approved Approval exists for each configured level. *)
(***************************************************************************)
C27_ApprovedOnlyAfterEveryLevel ==
  \A e \in DOMAIN expenses :
    (SequentialMode(settings) /\ expenses[e].status = "approved") =>
      \A k \in DOMAIN settings.approval_levels :
        \E i \in DOMAIN approvals :
          /\ approvals[i].expense_id = e
          /\ approvals[i].approval_level = settings.approval_levels[k].level
          /\ approvals[i].status = "approved"

(***************************************************************************)
(* C28: once an Approval has been delegated, an approve, a reject or a     *)
(* delegate of it that is issued by the user who delegated it, and who is  *)
(* no longer its approver, is answered with an error (not found, or the    *)
(* validation error of its own inputs) and changes neither the Approvals,  *)
(* nor the expenses, nor the audit log.                                    *)
(***************************************************************************)
Delegator(id, actor) ==
  /\ id \in DOMAIN approvals
  /\ approvals[id].delegated_by = actor
  /\ approvals[id].approver_id # actor

C28_DelegatorActsNoMore ==
  [][(FindStepOf("approve") \/ FindStepOf("reject") \/ FindStepOf("delegate")) =>
       \A actor \in Actors, id \in DOMAIN approvals :
         Delegator(id, actor) =>
           /\ \A c \in ApproveComments :
                ApproveFind(TRUE, actor, id, c) =>
                  /\ resp' = Response("approve", "not_found")
                  /\ UNCHANGED <<approvals, expenses, audit, reqs>>
           /\ \A c \in CommentValues :
                RejectFind(TRUE, actor, id, c) =>
                  /\ resp' \in {Response("reject", "not_found"),
                                Response("reject", "validation")}
                  /\ UNCHANGED <<approvals, expenses, audit, reqs>>
           /\ \A d \in UserIds :
                DelegateFind(TRUE, actor, id, d) =>
                  /\ resp' \in {Response("delegate", "not_found"),
                                Response("delegate", "validation")}
                  /\ UNCHANGED <<approvals, expenses, audit, reqs>>]_vars

\* an approve has been refused as not found while a delegated Approval was
\* pending in the hands of the delegate
C28_Witness ==
  /\ resp = Response("approve", "not_found")
  /\ reqs = EmptyBag
  /\ \E i \in DOMAIN approvals, actor \in Actors :
       Delegator(i, actor) /\ approvals[i].status = "pending"

(***************************************************************************)
(* C29: no Approval has as its approver the user who submitted the         *)
(* expense it refers to.                                                   *)
(***************************************************************************)
C29_NoSelfApproval ==
  \A i \in DOMAIN approvals :
    approvals[i].approver_id # expenses[approvals[i].expense_id].user_id

(***************************************************************************)
(* How each handler leaves the transaction it opened                       *)
(***************************************************************************)
\* the handlers that open a transaction before their first check
Transactional == {"submit", "approve", "reject", "bulk_approve", "delegate"}

\* what the path of handler op that answers with result does to the
\* transaction: the validation returns of rejectExpense, bulkApproveExpenses and
\* delegateApproval come after sequelize.transaction() and call neither commit
\* nor rollback; every other early return rolls back, the success paths commit
\* and the catch blocks roll back
TransactionEnd(op, result) ==
  IF op \notin Transactional THEN "none"
  ELSE IF result = "validation" THEN "open"
  ELSE IF result \in {"not_found", "bad_status", "error"} THEN "rollback"
  ELSE "commit"

(***************************************************************************)
(* C30: every path of submit, approve, reject, bulk approve and delegate   *)
(* ends the transaction it opened, by one commit or one rollback, before   *)
(* it answers; the early validation failures included.                     *)
(***************************************************************************)
C30_TransactionsEnded ==
  resp.op \in Transactional =>
    TransactionEnd(resp.op, resp.result) \in {"commit", "rollback"}

====
